---- MODULE Spec2Model ----
(***************************************************************************)
(* A model of notion/client.py: the NotionClient facade (record accessors, *)
(* submit_transaction) and the Transaction context manager.                *)
(***************************************************************************)
EXTENDS Integers, Sequences, FiniteSets, TLC

(***************************************************************************)
(* Bounds of the model.                                                    *)
(***************************************************************************)
\* The work callers do in one behaviour: an __enter__ takes one unit and every
\* operation passed to submit_transaction (or a call with an empty list) two.
\* 6 allows two scopes with two operations, or four scopes with one.
MaxWork == 6

VARIABLES
    txns,        \* the Transaction objects in use so far are 1..txns
    isDummy,     \* Transaction.is_dummy_nested_transaction of each object
    hasOps,      \* hasattr(client, "_transaction_operations")
    ops,         \* client._transaction_operations (<<>> when the attribute is absent)
    stack,       \* the scopes entered and not yet exited, innermost last
    requests,    \* the submitTransaction requests posted so far, in order
    refreshes,   \* calls of _store.handle_post_transaction_refreshing() so far
    passed,      \* the operations callers passed to submit_transaction while the buffer exists
    nScopes,     \* __enter__ calls so far
    nOps,        \* operations callers have passed to submit_transaction so far
    last,        \* what the last step did
    nestedFailed, \* tags of the buffered operations queued inside a nested scope an exception ended
    dropped,     \* [n, at]: operation n was buffered when its transaction was aborted or its
                 \* flush failed, and at requests had been posted by then
    remote,      \* the records the remote service holds, by <<table, id>>
    cache,       \* the record store's cache, by <<table, id>>
    result,      \* the last get_* call and what it returned
    call         \* the arguments of that call, and the cache entry it found

txnVars == <<txns, isDummy, hasOps, ops, stack, requests, refreshes, passed, nScopes, nOps, last,
             nestedFailed, dropped>>
getVars == <<remote, cache, result, call>>
vars == <<txnVars, getVars>>

(***************************************************************************)
(* Operations: {table, id, ...} dicts.  n tags the operation a caller      *)
(* built (1, 2, ...); le marks the automatic last-edited update.           *)
(***************************************************************************)
Targets == { <<"block", "x">>, <<"block", "y">>, <<"collection", "c">> }

Op(target, n) == [table |-> target[1], id |-> target[2], le |-> FALSE, n |-> n]

\* operations.operation_update_last_edited(user_id, block_id)
operation_update_last_edited(block_id) ==
    [table |-> "block", id |-> block_id, le |-> TRUE, n |-> 0]

\* The ids of all operations, whatever their table.
updated_blocks_any_table(operations) ==
    { operations[i].id : i \in DOMAIN operations }

\* set([op["id"] for op in operations if op["table"] == "block"])
updated_blocks(operations) ==
    { operations[i].id : i \in { j \in DOMAIN operations : operations[j].table = "block" } }

\* The lists a comprehension over the set can produce: one entry per element,
\* in an order the set's iteration decides.
Orders(S) ==
    { s \in [1..Cardinality(S) -> S] : \A i, j \in 1..Cardinality(S) : s[i] = s[j] => i = j }

\* isinstance(operations, dict): a single dict becomes a one-element list
as_list(isDict, operations) ==
    IF isDict THEN <<operations>> ELSE operations

\* The lists operations can be after "operations += [...]" of line 118.
with_last_edited(operations, update_last_edited) ==
    IF update_last_edited
    THEN { operations \o [i \in DOMAIN o |-> operation_update_last_edited(o[i])] :
             o \in Orders(updated_blocks(operations)) }
    ELSE { operations }

\* NotionClient.in_transaction
in_transaction(has) == has

\* A submit_transaction that puts new operations at the front of the buffer.
submit_transaction_prepends(c, final, ok, origin) ==
    IF in_transaction(c.has)
    THEN [has |-> c.has, ops |-> final \o c.ops, requests |-> c.requests,
          posted |-> 0, raised |-> FALSE]
    ELSE [has |-> c.has, ops |-> c.ops,
          requests |-> Append(c.requests, [operations |-> final, ok |-> ok, origin |-> origin]),
          posted |-> 1, raised |-> ~ok]

(***************************************************************************)
(* NotionClient.submit_transaction on the client state                     *)
(* c = [has, ops, requests]; final is the list after line 118 and ok the   *)
(* outcome of the remote post.  Returns the new client state, whether a    *)
(* request was posted and whether an error propagates to the caller.       *)
(***************************************************************************)
submit_transaction(c, final, ok, origin) ==
    IF in_transaction(c.has)
    THEN [has |-> c.has, ops |-> c.ops \o final, requests |-> c.requests,
          posted |-> 0, raised |-> FALSE]
    ELSE [has |-> c.has, ops |-> c.ops,
          requests |-> Append(c.requests, [operations |-> final, ok |-> ok, origin |-> origin]),
          posted |-> 1, raised |-> ~ok]

\* A __enter__ that starts a buffer of its own inside an open transaction.
txn_enter_always_resets(c, dummy) ==
    [has |-> TRUE, ops |-> <<>>, dummy |-> dummy, created |-> ~c.has]

(***************************************************************************)
(* Transaction.__enter__ on (client state, the object's flag).             *)
(***************************************************************************)
txn_enter(c, dummy) ==
    IF c.has
    THEN [has |-> c.has, ops |-> c.ops, dummy |-> TRUE, created |-> FALSE]
    ELSE [has |-> TRUE, ops |-> <<>>, dummy |-> dummy, created |-> TRUE]

\* A __exit__ that submits whatever exc_type is.
should_submit_always(exc_type) == TRUE

\* "if not exc_type:" of __exit__
should_submit(exc_type) == ~exc_type

\* A __exit__ that refreshes in a "finally".
reaches_refresh_always(raised) == TRUE

\* Whether line 186 is reached after the submit of line 184.
reaches_refresh(raised) == ~raised

\* One statement of __exit__ taking effect: ev is "del" (line 181), "post"
\* (the request of line 184) or "refresh" (line 186); inTxn is what
\* in_transaction() answers as it runs ("del": once it has run).
Step(ev, inTxn) == [ev |-> ev, inTxn |-> inTxn]

\* A __exit__ that refreshes as soon as the buffer is gone, before it submits.
txn_exit_refresh_first(c, dummy, exc_type, final, ok) ==
    IF dummy
    THEN [has |-> c.has, ops |-> c.ops, requests |-> c.requests,
          posted |-> 0, refreshed |-> 0, raised |-> FALSE, steps |-> <<>>]
    ELSE IF ~c.has
    THEN [has |-> c.has, ops |-> c.ops, requests |-> c.requests,
          posted |-> 0, refreshed |-> 0, raised |-> TRUE, steps |-> <<>>]
    ELSE LET d == [has |-> FALSE, ops |-> <<>>, requests |-> c.requests]
             s == IF should_submit(exc_type)
                  THEN submit_transaction(d, final, ok, "exit")
                  ELSE [has |-> d.has, ops |-> d.ops, requests |-> d.requests,
                        posted |-> 0, raised |-> FALSE]
         IN  [has |-> s.has, ops |-> s.ops, requests |-> s.requests,
              posted |-> s.posted, refreshed |-> 1, raised |-> s.raised,
              steps |-> <<Step("del", in_transaction(d.has)),
                          Step("refresh", in_transaction(d.has))>>
                        \o (IF s.posted = 1
                            THEN <<Step("post", in_transaction(d.has))>> ELSE <<>>)]

(***************************************************************************)
(* Transaction.__exit__ on the client state, for an object whose flag is   *)
(* dummy.  final is the list submit_transaction posts, ok the outcome of   *)
(* the post.                                                               *)
(***************************************************************************)
txn_exit(c, dummy, exc_type, final, ok) ==
    IF dummy
    THEN [has |-> c.has, ops |-> c.ops, requests |-> c.requests,
          posted |-> 0, refreshed |-> 0, raised |-> FALSE, steps |-> <<>>]
    ELSE IF ~c.has
    THEN \* self.client._transaction_operations: AttributeError
         [has |-> c.has, ops |-> c.ops, requests |-> c.requests,
          posted |-> 0, refreshed |-> 0, raised |-> TRUE, steps |-> <<>>]
    ELSE LET d == [has |-> FALSE, ops |-> <<>>, requests |-> c.requests]
             s == IF should_submit(exc_type)
                  THEN submit_transaction(d, final, ok, "exit")
                  ELSE [has |-> d.has, ops |-> d.ops, requests |-> d.requests,
                        posted |-> 0, raised |-> FALSE]
         IN  [has |-> s.has, ops |-> s.ops, requests |-> s.requests,
              posted |-> s.posted,
              refreshed |-> IF reaches_refresh(s.raised) THEN 1 ELSE 0,
              raised |-> s.raised,
              steps |-> <<Step("del", in_transaction(d.has))>>
                        \o (IF s.posted = 1
                            THEN <<Step("post", in_transaction(d.has))>> ELSE <<>>)
                        \o (IF reaches_refresh(s.raised)
                            THEN <<Step("refresh", in_transaction(s.has))>> ELSE <<>>)]

\* The tags of the caller-built operations of a list.
Tags(operations) == { operations[i].n : i \in { j \in DOMAIN operations : ~operations[j].le } }

\* The work done so far, and what is left of MaxWork.
Work == nScopes + 2 * nOps
Left == MaxWork - Work

Client == [has |-> hasOps, ops |-> ops, requests |-> requests]

NoStep == [op |-> "init", outer |-> FALSE, dummy |-> FALSE, exc |-> FALSE, posted |-> 0,
           refreshed |-> 0, raised |-> FALSE, was |-> FALSE, given |-> <<>>, ule |-> FALSE,
           steps |-> <<>>]

(***************************************************************************)
(* Records and the record store.  A string is the sequence of its          *)
(* characters; an id is IdLen hexadecimal digits (the code's ids have 32). *)
(***************************************************************************)
IdLen == 2

\* The id made of one digit repeated.
Id(ch) == [i \in 1..IdLen |-> ch]

Tables == {"block", "collection", "collection_view", "notion_user", "space"}
Ids == { Id("a"), Id("b") }
Keys == Tables \X Ids

\* A field a record does not have; dict.get without a default then gives it
\* (None).
NoField == "<none>"

\* Python's None, and a cache entry never fetched.
None == [kind |-> "None"]
Unfetched == [kind |-> "unfetched"]

Record(parent_table, type) == [kind |-> "dict", parent_table |-> parent_table, type |-> type]

\* dict.get(key, default) on the two fields the client reads
dict_get(record, key, default) ==
    LET v == IF key = "parent_table" THEN record.parent_table ELSE record.type
    IN  IF v = NoField THEN default ELSE v

\* block.BLOCK_TYPES and collection.COLLECTION_VIEW_TYPES: type name -> class
BLOCK_TYPES == [page |-> "PageBlock", collection_view |-> "CollectionViewBlock"]
COLLECTION_VIEW_TYPES == [table |-> "TableView", board |-> "BoardView"]

\* registry.get(key, default)
registry_get(registry, key, default) ==
    IF key \in DOMAIN registry THEN registry[key] ELSE default

BlockRecords ==
    { Record(p, t) : p \in {"collection", "space", NoField},
                     t \in {"page", "collection_view", "quote", NoField} }
ViewRecords == { Record("collection", t) : t \in {"table", "gallery", NoField} }

\* What the service holds: one block, one view and one record of each other
\* table may exist; every other key has no record.
Remote(blockA, viewB, others) ==
    [k \in Keys |->
        IF k = <<"block", Id("a")>> THEN blockA
        ELSE IF k = <<"collection_view", Id("b")>> THEN viewB
        ELSE IF k[1] \in {"collection", "notion_user", "space"} /\ k[2] = Id("a") THEN others
        ELSE None]

NoResult == [fn |-> "none", ret |-> "none", cls |-> "", id |-> <<>>, collection |-> "",
             looked |-> <<>>, absent |-> FALSE, data |-> None, fetched |-> 0]

\* The arguments of a call: before is the cache entry of <<table, arg>>.
Call(fn, table, arg, collection, force_refresh, before) ==
    [fn |-> fn, table |-> table, arg |-> arg, collection |-> collection,
     force_refresh |-> force_refresh, before |-> before]

NoCall == Call("none", "", <<>>, "", FALSE, Unfetched)

Init ==
    /\ txns = 0
    /\ isDummy = <<>>
    /\ hasOps = FALSE
    /\ ops = <<>>
    /\ stack = <<>>
    /\ requests = <<>>
    /\ refreshes = 0
    /\ passed = <<>>
    /\ nScopes = 0
    /\ nOps = 0
    /\ last = NoStep
    /\ nestedFailed = {}
    /\ dropped = {}
    /\ remote = Remote(None, None, None)
    /\ cache = [k \in Keys |-> Unfetched]
    /\ result = NoResult
    /\ call = NoCall

\* Transaction.is_dummy_nested_transaction = False, the class attribute a new
\* object starts with
new_transaction == FALSE

\* The objects a "with" statement can be given: one held from before, or the
\* new one of "with client.as_atomic_transaction():".
Objects == 1..(txns + 1)

\* "with t:" reaches t.__enter__()
Enter(t) ==
    /\ t \in Objects
    /\ Left >= 1
    /\ LET flag == IF t > txns THEN new_transaction ELSE isDummy[t]
           r == txn_enter(Client, flag)
       IN  /\ hasOps' = r.has
           /\ ops' = r.ops
           /\ txns' = IF t > txns THEN t ELSE txns
           /\ isDummy' = [u \in 1..txns' |-> IF u = t THEN r.dummy ELSE isDummy[u]]
           /\ stack' = Append(stack, [t |-> t, created |-> r.created, from |-> nOps])
           /\ nestedFailed' = IF r.created THEN {} ELSE nestedFailed
           /\ passed' = IF r.created THEN <<>> ELSE passed
           /\ last' = [NoStep EXCEPT !.op = "enter", !.outer = r.created, !.dummy = r.dummy,
                                     !.was = hasOps]
    /\ nScopes' = nScopes + 1
    /\ UNCHANGED <<requests, refreshes, nOps, dropped, getVars>>

\* The innermost open "with" block ends: __exit__(exc_type, ...)
Exit(exc_type, ok) ==
    /\ stack # <<>>
    /\ LET top == stack[Len(stack)]
       IN  \E final \in with_last_edited(ops, TRUE) :
             LET r == txn_exit(Client, isDummy[top.t], exc_type, final, ok)
             IN  /\ hasOps' = r.has
                 /\ ops' = r.ops
                 /\ requests' = r.requests
                 /\ refreshes' = refreshes + r.refreshed
                 /\ last' = [NoStep EXCEPT !.op = "exit", !.outer = top.created,
                                           !.dummy = isDummy[top.t], !.exc = exc_type,
                                           !.posted = Len(r.requests) - Len(requests),
                                           !.refreshed = r.refreshed,
                                           !.raised = r.raised, !.was = hasOps,
                                           !.given = passed, !.steps = r.steps]
                 /\ passed' = IF r.has THEN passed ELSE <<>>
                 /\ nestedFailed' =
                        IF exc_type /\ ~top.created
                        THEN nestedFailed \cup { n \in Tags(ops) : n > top.from }
                        ELSE nestedFailed
                 /\ dropped' =
                        IF hasOps /\ ~r.has /\ (exc_type \/ r.raised)
                        THEN dropped \cup
                             { [n |-> n, at |-> IF exc_type THEN Len(requests)
                                                ELSE Len(r.requests)] : n \in Tags(ops) }
                        ELSE dropped
    /\ stack' = SubSeq(stack, 1, Len(stack) - 1)
    /\ UNCHANGED <<txns, isDummy, nScopes, nOps, getVars>>

\* The lists of at most len caller-built operations, tagged from n on.
CallLists(n, len) ==
    UNION { { [i \in 1..k |-> Op(f[i], n + i)] : f \in [1..k -> Targets] } : k \in 0..len }

\* The operations a call counts for.
Cost(given) == IF given = <<>> THEN 1 ELSE Len(given)

\* A caller's client.submit_transaction(operations, update_last_edited)
SubmitTransaction(isDict, update_last_edited, ok) ==
    /\ Left >= 2
    /\ \E given \in CallLists(nOps, Left \div 2) :
         /\ isDict => Len(given) = 1
         /\ nOps' = nOps + Cost(given)
         /\ LET arg == IF isDict THEN given[1] ELSE given
            IN  \E final \in with_last_edited(as_list(isDict, arg), update_last_edited) :
                  LET r == submit_transaction(Client, final, ok, "call")
                  IN  /\ hasOps' = r.has
                      /\ ops' = r.ops
                      /\ requests' = r.requests
                      /\ passed' = IF hasOps THEN passed \o given ELSE passed
                      /\ last' = [NoStep EXCEPT !.op = "submit",
                                                !.posted = Len(r.requests) - Len(requests),
                                                !.raised = r.raised, !.was = hasOps,
                                                !.given = given,
                                                !.ule = update_last_edited]
    /\ UNCHANGED <<txns, isDummy, stack, refreshes, nScopes, nestedFailed, dropped, getVars>>

Next ==
    \/ \E t \in Objects : Enter(t)
    \/ \E exc_type \in BOOLEAN, ok \in BOOLEAN : Exit(exc_type, ok)
    \/ \E isDict \in BOOLEAN, ule \in BOOLEAN, ok \in BOOLEAN : SubmitTransaction(isDict, ule, ok)

Spec == Init /\ [][Next]_vars

(***************************************************************************)
(* The record accessors of NotionClient.                                   *)
(***************************************************************************)
HexDigits == {"a", "b", "c", "d", "e", "f", "0", "1", "2", "3", "4", "5", "6", "7", "8", "9"}

Http == <<"h", "t", "t", "p">>

\* str.startswith
startswith(s, prefix) ==
    Len(s) >= Len(prefix) /\ SubSeq(s, 1, Len(prefix)) = prefix

\* The pattern with its first group widened to any characters.
match_at_any_first_group(s, i) ==
    /\ i + 2 * IdLen + 2 <= Len(s)
    /\ SubSeq(s, i + IdLen, i + IdLen + 2) = <<"?", "v", "=">>
    /\ \A j \in 0..(IdLen - 1) : s[i + IdLen + 3 + j] \in HexDigits

\* Whether "([a-f0-9]{32})\?v=([a-f0-9]{32})" matches s from position i on.
match_at(s, i) ==
    /\ i + 2 * IdLen + 2 <= Len(s)
    /\ \A j \in 0..(IdLen - 1) : s[i + j] \in HexDigits
    /\ SubSeq(s, i + IdLen, i + IdLen + 2) = <<"?", "v", "=">>
    /\ \A j \in 0..(IdLen - 1) : s[i + IdLen + 3 + j] \in HexDigits

\* re.search of that pattern: the leftmost match and its two groups
re_search(s) ==
    LET starts == { i \in 1..Len(s) : match_at(s, i) }
    IN  IF starts = {}
        THEN [matched |-> FALSE, block_id |-> <<>>, view_id |-> <<>>]
        ELSE LET i == CHOOSE k \in starts : \A m \in starts : k <= m
             IN  [matched |-> TRUE,
                  block_id |-> SubSeq(s, i, i + IdLen - 1),
                  view_id |-> SubSeq(s, i + IdLen + 3, i + 2 * IdLen + 2)]

\* utils.extract_id: the id a page URL ends with, or the id itself
extract_id(url_or_id) ==
    IF startswith(url_or_id, Http)
    THEN LET slashes == { i \in 1..Len(url_or_id) : url_or_id[i] = "/" }
             from == IF slashes = {} THEN 1
                     ELSE 1 + CHOOSE k \in slashes : \A m \in slashes : m <= k
             marks == { i \in from..Len(url_or_id) : url_or_id[i] = "?" }
             to == IF marks = {} THEN Len(url_or_id)
                   ELSE (CHOOSE k \in marks : \A m \in marks : k <= m) - 1
         IN  SubSeq(url_or_id, from, to)
    ELSE url_or_id

\* "if not block": None is falsy
falsy(data) == data.kind = "None"

\* RecordStore.get(table, id, force_refresh): the cached entry, or a remote
\* fetch that is stored when the entry is absent or force_refresh is set
store_get(c, r, table, id, force_refresh) ==
    LET k == <<table, id>>
        known == k \in Keys
        hit == known /\ c[k] # Unfetched /\ ~force_refresh
        got == IF known THEN r[k] ELSE None
    IN  IF hit
        THEN [cache |-> c, data |-> c[k], fetched |-> 0]
        ELSE [cache |-> IF known THEN [c EXCEPT ![k] = got] ELSE c,
              data |-> got, fetched |-> 1]

\* RecordStore.call_get_record_values for one record: fetched and stored
call_get_record_values(c, r, table, id) ==
    IF <<table, id>> \in Keys THEN [c EXCEPT ![<<table, id>>] = r[<<table, id>>]] ELSE c

\* NotionClient.refresh_records
refresh_records(c, r, table, id) == call_get_record_values(c, r, table, id)

\* A get_record_data that leaves force_refresh at its default.
get_record_data_never_forced(c, r, table, id, force_refresh) ==
    store_get(c, r, table, id, FALSE)

\* NotionClient.get_record_data
get_record_data(c, r, table, id, force_refresh) ==
    store_get(c, r, table, id, force_refresh)

\* A class choice that lets the type rule win over the parent_table rule.
block_class_type_first(block) ==
    registry_get(BLOCK_TYPES, dict_get(block, "type", ""),
                 IF dict_get(block, "parent_table", NoField) = "collection"
                 THEN "CollectionRowBlock" ELSE "Block")

\* The class get_block chooses for a present record.
block_class(block) ==
    IF dict_get(block, "parent_table", NoField) = "collection"
    THEN "CollectionRowBlock"
    ELSE registry_get(BLOCK_TYPES, dict_get(block, "type", ""), "Block")

\* What an accessor call returns: ret is "None", "wrapper" or "raise"; cls the
\* wrapper's class or the exception's; looked the keys it looked up; absent
\* whether a lookup returned no data.
Outcome(fn, ret, cls, id, collection, looked, absent, data, fetched) ==
    [fn |-> fn, ret |-> ret, cls |-> cls, id |-> id, collection |-> collection,
     looked |-> looked, absent |-> absent, data |-> data, fetched |-> fetched]

\* NotionClient.get_block: the new cache and the outcome
get_block(c, r, url_or_id, force_refresh) ==
    LET block_id == extract_id(url_or_id)
        g == get_record_data(c, r, "block", block_id, force_refresh)
        looked == << <<"block", block_id>> >>
    IN  [cache |-> g.cache,
         out |-> IF falsy(g.data)
                 THEN Outcome("get_block", "None", "", block_id, "", looked, TRUE,
                              g.data, g.fetched)
                 ELSE Outcome("get_block", "wrapper", block_class(g.data), block_id, "",
                              looked, FALSE, g.data, g.fetched)]

\* get_collection, get_user and get_space: Cls(self, id) if data else None
get_simple(c, r, fn, table, cls, id, force_refresh) ==
    LET g == get_record_data(c, r, table, id, force_refresh)
        looked == << <<table, id>> >>
    IN  [cache |-> g.cache,
         out |-> IF falsy(g.data)
                 THEN Outcome(fn, "None", "", id, "", looked, TRUE, g.data, g.fetched)
                 ELSE Outcome(fn, "wrapper", cls, id, "", looked, FALSE, g.data, g.fetched)]

get_collection(c, r, collection_id, force_refresh) ==
    get_simple(c, r, "get_collection", "collection", "Collection", collection_id, force_refresh)

get_user(c, r, user_id, force_refresh) ==
    get_simple(c, r, "get_user", "notion_user", "User", user_id, force_refresh)

get_space(c, r, space_id, force_refresh) ==
    get_simple(c, r, "get_space", "space", "Space", space_id, force_refresh)

\* No collection passed: collection=None
NoCollection == ""

\* The .collection of the block wrapper get_block returned.
collection_of(out) == "collection of the block"

\* Lines 88-90 of get_collection_view, after view_id and collection are known.
view_lookup(c, r, view_id, collection, force_refresh, looked, fetched) ==
    LET g == get_record_data(c, r, "collection_view", view_id, force_refresh)
        all == Append(looked, <<"collection_view", view_id>>)
    IN  [cache |-> g.cache,
         out |-> IF falsy(g.data)
                 THEN Outcome("get_collection_view", "None", "", view_id, collection, all,
                              TRUE, g.data, fetched + g.fetched)
                 ELSE Outcome("get_collection_view", "wrapper",
                              registry_get(COLLECTION_VIEW_TYPES, dict_get(g.data, "type", ""),
                                           "CollectionView"),
                              view_id, collection, all, FALSE, g.data, fetched + g.fetched)]

\* NotionClient.get_collection_view
get_collection_view(c, r, url_or_id, collection, force_refresh) ==
    IF startswith(url_or_id, Http)
    THEN LET m == re_search(url_or_id)
         IN  IF ~m.matched
             THEN [cache |-> c,
                   out |-> Outcome("get_collection_view", "raise", "Exception", <<>>,
                                   collection, <<>>, FALSE, None, 0)]
             ELSE LET b == get_block(c, r, m.block_id, force_refresh)
                  IN  IF b.out.ret = "None"
                      THEN \* None.collection
                           [cache |-> b.cache,
                            out |-> Outcome("get_collection_view", "raise", "AttributeError",
                                            m.view_id, collection, b.out.looked, TRUE,
                                            None, b.out.fetched)]
                      ELSE view_lookup(b.cache, r, m.view_id, collection_of(b.out),
                                       force_refresh, b.out.looked, b.out.fetched)
    ELSE IF collection = NoCollection
    THEN [cache |-> c,
          out |-> Outcome("get_collection_view", "raise", "AssertionError", url_or_id,
                          collection, <<>>, FALSE, None, 0)]
    ELSE view_lookup(c, r, url_or_id, collection, force_refresh, <<>>, 0)

(***************************************************************************)
(* The arguments the accessors are called with.                            *)
(***************************************************************************)
UrlPrefix == Http \o <<"/">>
BlockUrl(ch) == UrlPrefix \o Id(ch)
ViewUrl(x, y) == UrlPrefix \o Id(x) \o <<"?", "v", "=">> \o Id(y)

BlockArgs == Ids \cup { BlockUrl("a"), BlockUrl("b") }
ViewArgs ==
    Ids \cup { ViewUrl(x, y) : x, y \in {"a", "b"} }
        \cup { BlockUrl("a"), UrlPrefix \o Id("a") \o <<"?", "v", "=", "b">>,
               UrlPrefix \o Id("g") \o <<"?", "v", "=">> \o Id("b") }

\* The services the accessors are tried against: every block record beside a
\* table view, every view record beside a view block, and a service that
\* holds no record at all.
Remotes ==
    { Remote(b, Record("collection", "table"), Record(NoField, NoField)) :
        b \in BlockRecords \cup {None} }
    \cup { Remote(Record("space", "collection_view"), v, Record(NoField, NoField)) :
             v \in ViewRecords \cup {None} }
    \cup { Remote(None, None, None) }

InitGet ==
    /\ txns = 0
    /\ isDummy = <<>>
    /\ hasOps = FALSE
    /\ ops = <<>>
    /\ stack = <<>>
    /\ requests = <<>>
    /\ refreshes = 0
    /\ passed = <<>>
    /\ nScopes = 0
    /\ nOps = 0
    /\ last = NoStep
    /\ nestedFailed = {}
    /\ dropped = {}
    /\ remote \in Remotes
    /\ cache = [k \in Keys |-> Unfetched]
    /\ result = NoResult
    /\ call = NoCall

Returns(r, table, arg, collection, force_refresh) ==
    /\ cache' = r.cache
    /\ result' = r.out
    /\ call' = Call(r.out.fn, table, arg, collection, force_refresh, Unfetched)
    /\ UNCHANGED <<remote, txnVars>>

GetBlock(url_or_id, force_refresh) ==
    Returns(get_block(cache, remote, url_or_id, force_refresh),
            "block", url_or_id, NoCollection, force_refresh)

GetCollection(id, force_refresh) ==
    Returns(get_collection(cache, remote, id, force_refresh),
            "collection", id, NoCollection, force_refresh)

GetUser(id, force_refresh) ==
    Returns(get_user(cache, remote, id, force_refresh),
            "notion_user", id, NoCollection, force_refresh)

GetSpace(id, force_refresh) ==
    Returns(get_space(cache, remote, id, force_refresh),
            "space", id, NoCollection, force_refresh)

GetCollectionView(url_or_id, collection, force_refresh) ==
    Returns(get_collection_view(cache, remote, url_or_id, collection, force_refresh),
            "collection_view", url_or_id, collection, force_refresh)

NextGet ==
    \/ \E a \in BlockArgs, f \in BOOLEAN : GetBlock(a, f)
    \/ \E f \in BOOLEAN : GetCollection(Id("a"), f)
    \/ \E f \in BOOLEAN : GetUser(Id("a"), f)
    \/ \E f \in BOOLEAN : GetSpace(Id("a"), f)
    \/ \E a \in ViewArgs, coll \in {NoCollection, "a collection"}, f \in BOOLEAN :
          GetCollectionView(a, coll, f)

SpecGet == InitGet /\ [][NextGet]_vars

(***************************************************************************)
(* The record accessor on its own, against a service whose records change. *)
(***************************************************************************)
StoreKeys == { <<"block", Id("a")>>, <<"block", Id("b")>>, <<"collection_view", Id("b")>> }

\* The cache entry of a key, Unfetched for a key the store never saw.
Entry(c, table, id) ==
    IF <<table, id>> \in Keys THEN c[<<table, id>>] ELSE Unfetched

GetRecordData(table, id, force_refresh) ==
    LET g == get_record_data(cache, remote, table, id, force_refresh)
    IN  /\ cache' = g.cache
        /\ result' = Outcome("get_record_data", IF falsy(g.data) THEN "None" ELSE "data",
                             "", id, NoCollection, << <<table, id>> >>, falsy(g.data),
                             g.data, g.fetched)
        /\ call' = Call("get_record_data", table, id, NoCollection, force_refresh,
                        Entry(cache, table, id))
        /\ UNCHANGED <<remote, txnVars>>

RefreshRecords(table, id) ==
    /\ cache' = refresh_records(cache, remote, table, id)
    /\ result' = NoResult
    /\ call' = Call("refresh_records", table, id, NoCollection, TRUE, Entry(cache, table, id))
    /\ UNCHANGED <<remote, txnVars>>

\* Somebody else edits the workspace: the service now answers differently,
\* and what the last call returned describes the service no longer.
RemoteChanges ==
    /\ remote' \in Remotes \ {remote}
    /\ result' = NoResult
    /\ call' = NoCall
    /\ UNCHANGED <<cache, txnVars>>

NextStore ==
    \/ \E k \in StoreKeys, f \in BOOLEAN : GetRecordData(k[1], k[2], f)
    \/ \E k \in StoreKeys : RefreshRecords(k[1], k[2])
    \/ RemoteChanges

SpecStore == InitGet /\ [][NextStore]_vars

(***************************************************************************)
(* Definitions the properties are written with.                            *)
(***************************************************************************)
LastRequest == requests[Len(requests)]

\* The caller-built operations of a list, in order.
UserOps(operations) == SelectSeq(operations, LAMBDA o : ~o.le)

\* The automatic last-edited updates of a list.
NumLastEdited(operations) == Len(SelectSeq(operations, LAMBDA o : o.le))

\* The last step was the __exit__ of a scope whose __enter__ found the client
\* inactive and created the buffer: an outer scope.
OuterExit == last.op = "exit" /\ last.outer

\* The open scopes whose __enter__ created the buffer.
OpenOuter == { i \in DOMAIN stack : stack[i].created }

\* The open scopes whose Transaction is not flagged as a dummy nested one.
OpenNonDummy == { i \in DOMAIN stack : ~isDummy[stack[i].t] }

(***************************************************************************)
(* C1: an outer scope that exits without an exception makes exactly one    *)
(* submitTransaction request, at its __exit__ and not while it is open,    *)
(* and the request holds every operation passed during the scope.          *)
(***************************************************************************)
C1_OneRequestAtOuterExit ==
    /\ (OpenOuter # {}) => last.posted = 0
    /\ (OuterExit /\ ~last.exc) =>
          /\ last.posted = 1
          /\ LastRequest.origin = "exit"
          /\ UserOps(LastRequest.operations) = last.given

(***************************************************************************)
(* C2: the request flushed at a successful outer exit holds as many        *)
(* last-edited updates as there are distinct block ids among the           *)
(* operations passed during the scope.                                     *)
(***************************************************************************)
C2_OneLastEditedPerBlock ==
    (OuterExit /\ ~last.exc /\ last.posted = 1) =>
        NumLastEdited(LastRequest.operations) = Cardinality(updated_blocks(last.given))

(***************************************************************************)
(* C3: an outer scope whose __exit__ receives an exception makes no        *)
(* request and discards the buffer: in_transaction() is False afterwards.  *)
(***************************************************************************)
C3_AbortDiscards ==
    (OuterExit /\ last.exc) =>
        /\ last.posted = 0
        /\ ~in_transaction(hasOps)
        /\ ops = <<>>

(***************************************************************************)
(* C4: an __enter__ made while the client is in a transaction keeps the    *)
(* buffer and its contents, the __exit__ of such a nested scope changes    *)
(* neither the buffer nor the requests, and a flush is only ever made by   *)
(* the __exit__ of the scope that created the buffer.                      *)
(***************************************************************************)
C4_NestedStep ==
    /\ (nScopes' # nScopes /\ hasOps) =>
          (hasOps' /\ ops' = ops /\ requests' = requests)
    /\ (Len(stack') < Len(stack) /\ ~stack[Len(stack)].created) =>
          (hasOps' = hasOps /\ ops' = ops /\ requests' = requests)
    /\ (Len(requests') > Len(requests) /\ requests'[Len(requests')].origin = "exit") =>
          (Len(stack') < Len(stack) /\ stack[Len(stack)].created)

C4_NestedScopesAreNoOps == [][C4_NestedStep]_vars

\* A nested scope has been entered and exited over a buffer that holds operations.
C4_Witness ==
    /\ last.op = "exit" /\ ~last.outer /\ last.was
    /\ hasOps /\ ops # <<>> /\ stack # <<>>

(***************************************************************************)
(* C5: the exit of an outer scope, with or without an exception (the       *)
(* flush, if any, not failing), invokes the post-transaction refresh       *)
(* exactly once and leaves the client inactive.                            *)
(***************************************************************************)
C5_RefreshOnceAndInactive ==
    (OuterExit /\ ~last.raised) => (last.refreshed = 1 /\ ~in_transaction(hasOps))

(***************************************************************************)
(* C6: an exception raised inside an outer scope: no request, the buffer   *)
(* cleared, and the post-transaction refresh not invoked.                  *)
(***************************************************************************)
C6_AbortSkipsRefresh ==
    (OuterExit /\ last.exc) =>
        (last.posted = 0 /\ ~in_transaction(hasOps) /\ last.refreshed = 0)

(***************************************************************************)
(* C6, as amended: an exception raised inside an outer scope: no request;  *)
(* when the scope's Transaction is not flagged as a dummy nested one the   *)
(* buffer is cleared and the post-transaction refresh is invoked exactly   *)
(* once; when it is flagged the exit does nothing at all.                  *)
(***************************************************************************)
C6_AbortRefreshes ==
    (OuterExit /\ last.exc) =>
        /\ last.posted = 0
        /\ ~last.dummy => (~in_transaction(hasOps) /\ ops = <<>> /\ last.refreshed = 1)
        /\ last.dummy => (in_transaction(hasOps) /\ last.refreshed = 0)

\* An outer scope that buffered operations has exited with an exception.
C6_Witness ==
    OuterExit /\ last.exc /\ ~last.dummy /\ last.given # <<>> /\ last.refreshed = 1

(***************************************************************************)
(* C7: when the post made by the flush of an outer exit fails, the error   *)
(* leaves __exit__, the refresh is not invoked, the buffer is already      *)
(* gone and exactly one request was attempted.                             *)
(***************************************************************************)
C7_FailedFlush ==
    (last.op = "exit" /\ last.posted > 0 /\ ~LastRequest.ok) =>
        /\ last.raised
        /\ last.refreshed = 0
        /\ ~in_transaction(hasOps)
        /\ ops = <<>>
        /\ last.posted = 1

\* The flush of a scope that buffered operations has failed.
C7_Witness ==
    /\ OuterExit /\ ~last.exc /\ last.posted = 1 /\ ~LastRequest.ok
    /\ UserOps(LastRequest.operations) # <<>>

(***************************************************************************)
(* C8: at most one open scope is non-dummy, in_transaction() is True       *)
(* exactly when there is one, and every other open scope is a dummy.       *)
(***************************************************************************)
C8_OneActiveScope ==
    /\ Cardinality(OpenNonDummy) <= 1
    /\ in_transaction(hasOps) <=> (OpenNonDummy # {})
    /\ OpenNonDummy \subseteq OpenOuter

(***************************************************************************)
(* What C1, C3, C5 and C8 say does hold of a scope whose Transaction never *)
(* had its is_dummy_nested_transaction flag set: they fail only through    *)
(* the flag staying set once __enter__ has set it.                         *)
(***************************************************************************)
UnflaggedOuterExit == OuterExit /\ ~last.dummy

Unflagged_OneRequestAtOuterExit ==
    (UnflaggedOuterExit /\ ~last.exc) =>
        /\ last.posted = 1
        /\ LastRequest.origin = "exit"
        /\ UserOps(LastRequest.operations) = last.given

Unflagged_AbortDiscards ==
    (UnflaggedOuterExit /\ last.exc) =>
        (last.posted = 0 /\ ~in_transaction(hasOps) /\ ops = <<>>)

Unflagged_RefreshOnceAndInactive ==
    (UnflaggedOuterExit /\ ~last.raised) => (last.refreshed = 1 /\ ~in_transaction(hasOps))

Unflagged_OneActiveScope ==
    /\ Cardinality(OpenOuter) <= 1
    /\ (\A t \in 1..txns : ~isDummy[t]) => (in_transaction(hasOps) <=> OpenOuter # {})


(***************************************************************************)
(* C9: get_block on a present record whose parent_table is "collection"    *)
(* returns a CollectionRowBlock whatever the record's type is.             *)
(***************************************************************************)
C9_CollectionRowFirst ==
    (/\ result.fn = "get_block"
     /\ ~falsy(result.data)
     /\ result.data.parent_table = "collection") =>
        (result.ret = "wrapper" /\ result.cls = "CollectionRowBlock")

\* get_block has returned a row for a record whose type BLOCK_TYPES registers.
C9_Witness ==
    /\ result.fn = "get_block" /\ result.ret = "wrapper"
    /\ ~falsy(result.data)
    /\ result.data.parent_table = "collection"
    /\ result.data.type \in DOMAIN BLOCK_TYPES
    /\ result.cls = "CollectionRowBlock"

(***************************************************************************)
(* C10: whenever a record an accessor looks up is absent from the store,   *)
(* the accessor returns None: it neither raises nor builds a wrapper.      *)
(***************************************************************************)
C10_AbsentGivesNone ==
    result.absent => result.ret = "None"

(***************************************************************************)
(* C11: get_collection_view given a URL that holds no two ids joined by    *)
(* "?v=", or a view id without a collection, raises before any record is   *)
(* looked up or fetched; it returns neither a wrapper nor None.            *)
(***************************************************************************)
\* s holds IdLen hexadecimal digits, "?v=" and IdLen hexadecimal digits.
HoldsTwoIds(s) ==
    \E i \in 1..Len(s) :
        /\ i + 2 * IdLen + 2 <= Len(s)
        /\ \A j \in i..(i + IdLen - 1) : s[j] \in HexDigits
        /\ s[i + IdLen] = "?" /\ s[i + IdLen + 1] = "v" /\ s[i + IdLen + 2] = "="
        /\ \A j \in (i + IdLen + 3)..(i + 2 * IdLen + 2) : s[j] \in HexDigits

IsUrl(s) == Len(s) >= 4 /\ s[1] = "h" /\ s[2] = "t" /\ s[3] = "t" /\ s[4] = "p"

Malformed(arg, collection) ==
    \/ IsUrl(arg) /\ ~HoldsTwoIds(arg)
    \/ ~IsUrl(arg) /\ collection = NoCollection

C11_MalformedFailsFirst ==
    (call.fn = "get_collection_view" /\ Malformed(call.arg, call.collection)) =>
        /\ result.ret = "raise"
        /\ result.looked = <<>>
        /\ result.fetched = 0

\* A malformed URL has been refused while the view and block it could have
\* named are there to be fetched.
C11_Witness ==
    /\ call.fn = "get_collection_view" /\ IsUrl(call.arg) /\ ~HoldsTwoIds(call.arg)
    /\ result.ret = "raise" /\ result.cls = "Exception"
    /\ ~falsy(remote[<<"block", Id("a")>>])
    /\ cache[<<"block", Id("a")>>] = Unfetched

(***************************************************************************)
(* C12: get_record_data of a cached record without force_refresh returns   *)
(* the cached payload and fetches nothing; with force_refresh it fetches   *)
(* once and overwrites the entry; a cold read fetches once.                *)
(***************************************************************************)
C12_CacheOrFetch ==
    call.fn = "get_record_data" =>
        LET now == Entry(cache, call.table, call.arg)
            there == remote[<<call.table, call.arg>>]
        IN  /\ (call.before # Unfetched /\ ~call.force_refresh) =>
                  /\ result.data = call.before
                  /\ result.fetched = 0
                  /\ now = call.before
            /\ call.force_refresh =>
                  /\ result.fetched = 1
                  /\ result.data = there
                  /\ now = there
            /\ call.before = Unfetched =>
                  /\ result.fetched = 1
                  /\ result.data = there

\* A forced read has replaced an entry that no longer matched the service.
C12_Witness ==
    /\ call.fn = "get_record_data" /\ call.force_refresh
    /\ call.before # Unfetched
    /\ call.before # remote[<<call.table, call.arg>>]
    /\ Entry(cache, call.table, call.arg) = remote[<<call.table, call.arg>>]
    /\ result.fetched = 1

\* A warm read has answered from the cache although the service has changed.
C12_WarmWitness ==
    /\ call.fn = "get_record_data" /\ ~call.force_refresh
    /\ call.before # Unfetched
    /\ call.before # remote[<<call.table, call.arg>>]
    /\ result.data = call.before /\ result.fetched = 0

(***************************************************************************)
(* C13: while the buffer exists a submit_transaction call posts nothing,   *)
(* returns nothing and puts its operations at the end of the buffer, which *)
(* holds the operations passed so far in call order; the request of the    *)
(* flush lists them in that order.                                         *)
(***************************************************************************)
\* The last k elements of a sequence.
LastOf(seq, k) == SubSeq(seq, Len(seq) - k + 1, Len(seq))

C13_BufferAppendOnly ==
    /\ (last.op = "submit" /\ last.was) =>
          LET k == IF last.ule THEN Cardinality(updated_blocks(last.given)) ELSE 0
              tail == LastOf(ops, Len(last.given) + k)
          IN  /\ last.posted = 0 /\ ~last.raised
              /\ hasOps
              /\ Len(ops) >= Len(last.given) + k
              /\ SubSeq(tail, 1, Len(last.given)) = last.given
              /\ \A i \in (Len(last.given) + 1)..Len(tail) : tail[i].le
    /\ hasOps => UserOps(ops) = passed
    /\ (last.op = "exit" /\ last.posted = 1) =>
          UserOps(LastRequest.operations) = last.given

\* A call has added operations behind those of an earlier call.
C13_Witness ==
    /\ last.op = "submit" /\ last.was /\ last.given # <<>>
    /\ Len(passed) > Len(last.given)
    /\ stack # <<>>

(***************************************************************************)
(* C14: without a buffer a submit_transaction call posts one request at    *)
(* once: the given operations, then one last-edited update for each        *)
(* distinct id the given "block" operations name and for nothing else;     *)
(* with update_last_edited false, the given operations alone.              *)
(***************************************************************************)
C14_DirectSubmit ==
    (last.op = "submit" /\ ~last.was) =>
        LET g == last.given
            o == LastRequest.operations
            touched == { g[i].id : i \in { j \in DOMAIN g : g[j].table = "block" } }
            added == { i \in DOMAIN o : i > Len(g) }
        IN  /\ last.posted = 1
            /\ requests # <<>> /\ LastRequest.origin = "call"
            /\ ~hasOps /\ ops = <<>>
            /\ Len(o) >= Len(g) /\ SubSeq(o, 1, Len(g)) = g
            /\ \A i \in added : o[i].le /\ o[i].table = "block"
            /\ \A i, j \in added : o[i].id = o[j].id => i = j
            /\ { o[i].id : i \in added } = IF last.ule THEN touched ELSE {}

\* One request has carried two operations on one block and one on a
\* collection, with a single last-edited update.
C14_Witness ==
    /\ last.op = "submit" /\ ~last.was /\ last.ule /\ last.posted = 1
    /\ \E i, j, k \in DOMAIN last.given :
          /\ i # j
          /\ last.given[i].table = "block" /\ last.given[j].table = "block"
          /\ last.given[i].id = last.given[j].id
          /\ last.given[k].table = "collection"
    /\ NumLastEdited(LastRequest.operations) = 1

(***************************************************************************)
(* C15: the statements of an exit run in one order: the buffer is removed  *)
(* first, the request (made only without an exception) is posted next, and *)
(* the refresh comes last: never before the request of a successful scope  *)
(* and never while in_transaction() still answers True.                    *)
(***************************************************************************)
StepsAt(ev) == { i \in DOMAIN last.steps : last.steps[i].ev = ev }

C15_ExitOrder ==
    last.op = "exit" =>
        /\ \A ev \in {"del", "post", "refresh"} : Cardinality(StepsAt(ev)) <= 1
        /\ \A i \in StepsAt("del") : ~last.steps[i].inTxn
        /\ \A i \in StepsAt("post") :
              /\ \E j \in StepsAt("del") : j < i
              /\ ~last.steps[i].inTxn
              /\ ~last.exc
        /\ \A i \in StepsAt("refresh") :
              /\ \E j \in StepsAt("del") : j < i
              /\ ~last.steps[i].inTxn
              /\ \A j \in StepsAt("post") : j < i
              /\ ~last.exc => StepsAt("post") # {}
        /\ (last.posted = 1) = (StepsAt("post") # {})
        /\ (last.refreshed = 1) = (StepsAt("refresh") # {})
        /\ StepsAt("del") # {} => ~in_transaction(hasOps)

\* A scope with buffered operations has ended: buffer removed, request
\* posted, refresh called.
C15_Witness ==
    /\ last.op = "exit" /\ last.given # <<>>
    /\ [i \in DOMAIN last.steps |-> last.steps[i].ev] = <<"del", "post", "refresh">>
    /\ requests # <<>> /\ LastRequest.ok

(***************************************************************************)
(* C16: the exit of a scope whose __enter__ created the buffer leaves the  *)
(* client out of the transaction state with the buffer gone, whatever the  *)
(* Transaction object went through before; with no scope open the client   *)
(* is never in the transaction state.                                      *)
(***************************************************************************)
C16_NeverStuck ==
    /\ OuterExit => (~in_transaction(hasOps) /\ ops = <<>>)
    /\ stack = <<>> => ~in_transaction(hasOps)

\* The same for the exits of objects that were never entered as a nested
\* scope; the AttributeError exit of a scope entered while stuck aside.
Unflagged_NeverStuck ==
    UnflaggedOuterExit => (~in_transaction(hasOps) /\ ops = <<>>)

(***************************************************************************)
(* C17: the exit of a nested scope, with or without an exception, changes  *)
(* nothing: the buffer keeps what was queued inside it, and when the outer *)
(* scope then exits without an exception its flush submits the operations  *)
(* queued inside a nested scope that an exception ended.                   *)
(***************************************************************************)
C17_NestedFailureKeepsOps ==
    /\ (last.op = "exit" /\ ~last.outer) =>
          /\ last.posted = 0 /\ last.refreshed = 0 /\ ~last.raised
          /\ hasOps = last.was
          /\ UserOps(ops) = last.given
    /\ hasOps => nestedFailed \subseteq Tags(ops)
    /\ (OuterExit /\ ~last.exc /\ nestedFailed # {}) =>
          /\ last.posted = 1
          /\ nestedFailed \subseteq Tags(LastRequest.operations)

\* The same with the flush asked only of an outer scope whose object was
\* never entered as a nested scope.
Unflagged_NestedFailureKeepsOps ==
    /\ (last.op = "exit" /\ ~last.outer) =>
          /\ last.posted = 0 /\ last.refreshed = 0 /\ ~last.raised
          /\ hasOps = last.was
          /\ UserOps(ops) = last.given
    /\ hasOps => nestedFailed \subseteq Tags(ops)
    /\ (UnflaggedOuterExit /\ ~last.exc /\ nestedFailed # {}) =>
          /\ last.posted = 1
          /\ nestedFailed \subseteq Tags(LastRequest.operations)

\* An outer flush has carried operations of a nested scope an exception ended.
Unflagged_NestedFailureReached ==
    /\ UnflaggedOuterExit /\ ~last.exc /\ nestedFailed # {}
    /\ last.posted = 1 /\ nestedFailed \subseteq Tags(LastRequest.operations)

(***************************************************************************)
(* C18: an __enter__ that creates the buffer creates it empty; no          *)
(* operation is in two requests; an operation that was buffered when its   *)
(* transaction was aborted, or when its flush failed, is in no request     *)
(* posted after that.                                                      *)
(***************************************************************************)
C18_NoLeak ==
    /\ (last.op = "enter" /\ last.outer) => (in_transaction(hasOps) /\ ops = <<>>)
    /\ \A i, j \in DOMAIN requests :
          i # j => Tags(requests[i].operations) \cap Tags(requests[j].operations) = {}
    /\ \A d \in dropped :
          \A i \in DOMAIN requests :
              i > d.at => d.n \notin Tags(requests[i].operations)

\* After a transaction lost its operations another request was posted and
\* accepted.
C18_Witness ==
    /\ \E d \in dropped : Len(requests) > d.at
    /\ requests # <<>> /\ LastRequest.ok /\ Tags(LastRequest.operations) # {}

====
